---- MODULE Spec2Model ----
\* The packet bridge of ThunderScope (bridge.cpp, POSIX build: the #else
\* branches).  The WIN32 branches are not modelled (RxStop of that build,
\* rx_run(false), is not a call an atomic flag offers).
\*
\* Threads: one control thread calling TxStart/TxStop/RxStart/RxStop and the
\* destructor, the Tx worker (TxJob), the Rx worker (RxJob), one producer
\* pushing on _gtxQueue (and one pushing on the caller's own queue when the
\* Bridge was constructed with one), and the peer process at the far end of
\* each socket.
EXTENDS Integers, Sequences, FiniteSets, TLC

\* ------------------------------------------------------------------ bounds
MaxCalls == 3        \* lifecycle calls the control thread makes
MaxEnqueue == 2      \* packets the producer pushes
MaxPeerWrites == 2   \* chunks the peer writes on the inbound channel
MaxFds == 5          \* size of the descriptor table (RLIMIT_NOFILE)
MaxSent == 3         \* send calls after which an undefined front() ends the process

\* --------------------------------------------------------------- constants
BRIDGE_BUFFER_SIZE == 4096          \* size of tx_buff and rxBuff
HEADER_SIZE == 6                    \* three uint16 fields
MAX_PAYLOAD == BRIDGE_BUFFER_SIZE - HEADER_SIZE
NoFd == -1                          \* the closed sentinel of the socket fields
Indet == -2                         \* an indeterminate (never written) byte

Min(a, b) == IF a < b THEN a ELSE b

U16(x) == x % 65536

\* ----------------------------------------------------------------- packets
\* EVPacket: command, packetID, dataSize, data.
EVPacket(c, id, d) ==
    [command |-> U16(c), packetID |-> U16(id), dataSize |-> U16(Len(d)), data |-> d]

NoPacket == [command |-> 0, packetID |-> 0, dataSize |-> 0, data |-> << -1 >>]

\* The packet runSocketTest builds.
TestPacket == EVPacket(1, 2056, <<1, 2, 3, 4, 5>>)

\* The k-th packet the producer pushes: runSocketTest's packet first, then
\* packets numbered by their position.
ProducerPackets(k) ==
    IF k = 1 THEN {TestPacket, EVPacket(513, 1, <<>>)}
    ELSE {EVPacket(1, k, << k >>), EVPacket(772, k, <<>>)}

\* ------------------------------------------------------------ wire format
StoreU16HighFirst(v) == << (v \div 256) % 256, v % 256 >>

\* A uint16 stored through a uint16_t* into a byte buffer (little-endian
\* host): low byte first.
StoreU16(v) == << v % 256, (v \div 256) % 256 >>

\* A uint16 read through a uint16_t* from two bytes of a buffer.
LoadU16(lo, hi) == lo + 256 * hi

\* buf with its first Len(bytes) bytes overwritten; what lies beyond stays.
Overlay(buf, bytes) == bytes \o SubSeq(buf, Len(bytes) + 1, Len(buf))

\* memcpy(dst, src, n) out of a packet's payload: n bytes; bytes past the
\* allocation are indeterminate.
PayloadBytes(pkt, n) ==
    [i \in 1..n |-> IF i <= Len(pkt.data) THEN pkt.data[i] ELSE Indet]

\* TxJob, the serialisation of one packet into tx_buff.
TxPacketSize(pkt) == HEADER_SIZE + pkt.dataSize

TxFrame(pkt) ==
    StoreU16(pkt.command) \o StoreU16(pkt.packetID) \o StoreU16(pkt.dataSize)
        \o PayloadBytes(pkt, pkt.dataSize)

TxSerialize(buf, pkt) == Overlay(buf, TxFrame(pkt))

TxSendWholeBuffer(buf, pkt) == buf

\* send(client_tx_sock, tx_buff, packet_size, 0): the bytes handed over.
TxSendBytes(buf, pkt) == SubSeq(buf, 1, TxPacketSize(pkt))

\* RxJob: rxBuff as the bytes recv has ever written into it; what lies beyond
\* was never written.
RxByte(buf, i) == IF i <= Len(buf) THEN buf[i] ELSE Indet

\* The values a read of a uint16 with a never-written byte can give.
IndetU16 == {1, 65535}

RxLoadU16(buf, i) ==
    IF RxByte(buf, i) = Indet \/ RxByte(buf, i + 1) = Indet THEN IndetU16
    ELSE {LoadU16(RxByte(buf, i), RxByte(buf, i + 1))}

\* rxBuff16[0], rxBuff16[1], rxBuff16[2]: the headers a read of rxBuff can give.
RxHeaders(buf) ==
    {[command |-> c, packetID |-> id, dataSize |-> n] :
        c \in RxLoadU16(buf, 1), id \in RxLoadU16(buf, 3), n \in RxLoadU16(buf, 5)}

RxSizeUnchecked(n) == TRUE

\* The length check of the reconstruction.
RxSizeValid(n) == n <= BRIDGE_BUFFER_SIZE - HEADER_SIZE

\* The packet RxJob reconstructs from rxBuff and the header h read from it.
RxReconstruct(buf, h) ==
    IF RxSizeValid(h.dataSize)
    THEN [command |-> h.command, packetID |-> h.packetID, dataSize |-> h.dataSize,
          data |-> [i \in 1..h.dataSize |-> RxByte(buf, HEADER_SIZE + i)]]
    ELSE [command |-> h.command, packetID |-> h.packetID, dataSize |-> 1,
          data |-> << Indet >>]

\* recv(client_rx_sock, rxBuff, BRIDGE_BUFFER_SIZE, 0) on a local stream
\* socket: what is waiting, up to the length asked for.  (How a frame is
\* split over reads is decided by how the peer writes it, see PeerChunks.)
RecvRequest == BRIDGE_BUFFER_SIZE

RecvLens(avail) == {Min(avail, RecvRequest)}

\* --------------------------------------------------------------- the state
VARIABLES
    tx_run, rx_run,              \* the run flags
    tx_sock, rx_sock,            \* listening sockets
    client_tx_sock, client_rx_sock,
    tx_buff, rxBuff,
    tx_worker, rx_worker,        \* "none" (not joinable) or the worker's position
    txPacket,                    \* TxJob's dequeued packet
    gtxQueue, txLock,            \* _gtxQueue and _gtxLock ("free" or the holder)
    enqueued, sent,              \* packets pushed so far; send calls made so far
    txRef,                       \* what _txQueue and _txLock refer to: "global" (_gtxQueue
                                 \* and _gtxLock) or "own" (a queue and lock of the caller)
    txQueue, txQueueLock,        \* the caller's own queue and its lock
    fds,                         \* the descriptor table: fd -> what it is
    txFile, rxFile,              \* the socket paths exist in the file system
    txPeer, rxPeer,              \* the peer of the current endpoint
    rxStream, peerWrites,        \* unread inbound bytes; chunks written so far
    rxLast,                      \* RxJob's last iteration: recv result, header, packet
    rxWritten,                   \* the bytes the peer has written on this connection
    rxPrinted,                   \* the packets PrintPacket has printed on this connection
    ctlPc,                       \* where the control thread is ("idle": in no call;
                                 \* "destroyed": the destructor has completed)
    ctlOp, ctlPrevOp,            \* the call it makes or made last, and the one before
    ctlRet,                      \* what the last completed call returned
    ctlEntry,                    \* the run flag and socket when the call was made
    calls,                       \* calls made so far
    terminated,                  \* "no", or what ended the process
    fr,                          \* the framing functions applied to one packet
    heap                         \* live allocations: EVPacket records, payload buffers

txVars == <<tx_run, tx_sock, client_tx_sock, tx_buff, tx_worker, txPacket, txPeer, txFile>>
rxVars == <<rx_run, rx_sock, client_rx_sock, rxBuff, rx_worker, rxPeer, rxFile,
            rxStream, peerWrites, rxLast,
                   rxWritten, rxPrinted>>
queueVars == <<gtxQueue, txLock, enqueued, sent, txRef, txQueue, txQueueLock>>
ctlVars == <<ctlPc, ctlOp, ctlRet, ctlPrevOp, ctlEntry, calls>>
vars == <<txVars, rxVars, queueVars, ctlVars, fds, terminated, fr, heap>>

\* malloc(sizeof(EVPacket)) and malloc of the payload; free(packet) alone;
\* FreePacket: free(packet->data), free(packet).
NoHeap == [packets |-> 0, data |-> 0]
AllocPacket(h) == [packets |-> h.packets + 1, data |-> h.data + 1]
FreeRecord(h) == [h EXCEPT !.packets = @ - 1]
FreePacket(h) == [packets |-> h.packets - 1, data |-> h.data - 1]

NoRx == [size |-> 0, hdrSize |-> 0, built |-> FALSE, packet |-> NoPacket]
FrIdle == [stage |-> "off"]

\* Bridge::Bridge.
BridgeInit ==
    /\ tx_run = FALSE /\ rx_run = FALSE
    /\ tx_sock = NoFd /\ rx_sock = NoFd
    /\ client_tx_sock = NoFd
    /\ client_rx_sock = Indet
    /\ tx_buff = <<>> /\ rxBuff = <<>>
    /\ tx_worker = "none" /\ rx_worker = "none"
    /\ txPacket = NoPacket

ProcessInit ==
    /\ BridgeInit
    /\ gtxQueue = <<>> /\ txLock = "free"
    /\ enqueued = <<>> /\ sent = <<>>
    /\ txQueue = <<>> /\ txQueueLock = "free"
    /\ fds = [f \in 1..MaxFds |-> "free"]
    /\ txFile = FALSE /\ rxFile = FALSE
    /\ txPeer = "none" /\ rxPeer = "none"
    /\ rxStream = <<>> /\ peerWrites = 0
    /\ rxLast = NoRx
    /\ rxWritten = <<>> /\ rxPrinted = <<>>
    /\ ctlPc = "idle" /\ ctlOp = "none" /\ ctlRet = 0 /\ ctlPrevOp = "none"
    /\ ctlEntry = [run |-> FALSE, sock |-> NoFd] /\ calls = 0
    /\ terminated = "no"
    /\ fr = FrIdle
    /\ heap = NoHeap

\* A Bridge constructed as runSocketTest constructs it.
Init == ProcessInit /\ txRef = "global"

\* A Bridge constructed with a queue and a lock of the caller's own.
InitOwn == ProcessInit /\ txRef = "own"

Alive == terminated = "no"

\* ------------------------------------------------------ descriptor table
FreeFds == {f \in DOMAIN fds : fds[f] = "free"}
LowestFree == CHOOSE f \in FreeFds : \A g \in FreeFds : f <= g
OpenFds(kind) == {f \in DOMAIN fds : fds[f] = kind}

\* ---------------------------------------------------------- control thread
\* The outcomes socket() and bind() can have.
InitOutcomes == IF FreeFds = {} THEN {"socket"} ELSE {"ok", "socket", "bind"}

\* InitTxBridge: socket(), unlink(), bind().  The fields it leaves and its
\* return value.
InitTxBridge(outcome) ==
    IF outcome = "socket"
    THEN [err |-> 1, sock |-> NoFd, fds |-> fds, file |-> txFile]
    ELSE [err |-> IF outcome = "bind" THEN 2 ELSE 0,
          sock |-> LowestFree,
          fds |-> [fds EXCEPT ![LowestFree] = "tx_sock"],
          file |-> (outcome = "ok")]

InitRxBridge(outcome) ==
    IF outcome = "socket"
    THEN [err |-> 1, sock |-> NoFd, fds |-> fds, file |-> rxFile]
    ELSE [err |-> IF outcome = "bind" THEN 2 ELSE 0,
          sock |-> LowestFree,
          fds |-> [fds EXCEPT ![LowestFree] = "rx_sock"],
          file |-> (outcome = "ok")]

TxStopCloseKeepsField ==
    IF tx_sock # NoFd
    THEN [sock |-> tx_sock, client |-> NoFd, fds |-> [fds EXCEPT ![tx_sock] = "free"],
          file |-> FALSE]
    ELSE [sock |-> tx_sock, client |-> client_tx_sock, fds |-> fds, file |-> txFile]

\* TxStop after the join: close(tx_sock), tx_sock = -1, client_tx_sock = -1,
\* unlink().
TxStopClose ==
    IF tx_sock # NoFd
    THEN [sock |-> NoFd, client |-> NoFd, fds |-> [fds EXCEPT ![tx_sock] = "free"],
          file |-> FALSE]
    ELSE [sock |-> tx_sock, client |-> client_tx_sock, fds |-> fds, file |-> txFile]

\* RxStop after the join: close(rx_sock), rx_sock = -1, unlink().
RxStopClose ==
    IF rx_sock # NoFd
    THEN [sock |-> NoFd, client |-> client_rx_sock,
          fds |-> [fds EXCEPT ![rx_sock] = "free"], file |-> FALSE]
    ELSE [sock |-> rx_sock, client |-> client_rx_sock, fds |-> fds, file |-> rxFile]

TxStartNeverStops == FALSE

\* if (tx_run.load() == true) TxStop();
TxStartStopsFirst == tx_run
RxStartStopsFirst == rx_run

\* worker.joinable(); join() returns once the thread has finished ("done":
\* it left its loop or had no socket; "failed": listen() or accept() failed).
Joinable(worker) == worker # "none"
JoinReturns(worker) == worker \in {"none", "done", "failed"}

\* TxStart up to the join inside TxStop, or up to InitTxBridge.
TxStart ==
    /\ Alive /\ ctlPc = "idle" /\ calls < MaxCalls
    /\ calls' = calls + 1
    /\ ctlPrevOp' = ctlOp /\ ctlOp' = "TxStart"
    /\ ctlEntry' = [run |-> tx_run, sock |-> tx_sock]
    /\ IF TxStartStopsFirst
       THEN tx_run' = FALSE /\ ctlPc' = "TxStop_join"
       ELSE tx_run' = tx_run /\ ctlPc' = "TxStart_init"
    /\ UNCHANGED <<tx_sock, client_tx_sock, tx_buff, tx_worker, txPacket, txPeer, txFile>>
    /\ UNCHANGED <<rxVars, queueVars, ctlRet, fds, terminated, fr, heap>>

\* TxStop: tx_run.store(false), up to the join.
TxStop ==
    /\ Alive /\ ctlPc = "idle" /\ calls < MaxCalls
    /\ calls' = calls + 1
    /\ ctlPrevOp' = ctlOp /\ ctlOp' = "TxStop"
    /\ ctlEntry' = [run |-> tx_run, sock |-> tx_sock]
    /\ tx_run' = FALSE
    /\ ctlPc' = "TxStop_join"
    /\ UNCHANGED <<tx_sock, client_tx_sock, tx_buff, tx_worker, txPacket, txPeer, txFile>>
    /\ UNCHANGED <<rxVars, queueVars, ctlRet, fds, terminated, fr, heap>>

\* TxStop from the join on: join the worker, close the socket, return 0 (to
\* the caller, to TxStart, or to the destructor, which is then complete).
TxStopJoin ==
    /\ Alive /\ ctlPc = "TxStop_join"
    /\ JoinReturns(tx_worker)
    /\ tx_worker' = "none"
    /\ tx_sock' = TxStopClose.sock
    /\ client_tx_sock' = TxStopClose.client
    /\ fds' = TxStopClose.fds
    /\ txFile' = TxStopClose.file
    /\ txPeer' = IF tx_sock # NoFd THEN "none" ELSE txPeer
    /\ IF ctlOp = "TxStart"
       THEN ctlPc' = "TxStart_init" /\ ctlRet' = ctlRet
       ELSE IF ctlOp = "~Bridge"
       THEN ctlPc' = "destroyed" /\ ctlRet' = ctlRet
       ELSE ctlPc' = "idle" /\ ctlRet' = 0
    /\ UNCHANGED <<tx_run, tx_buff, txPacket>>
    /\ UNCHANGED <<rxVars, queueVars, ctlOp, ctlPrevOp, ctlEntry, calls, terminated, fr, heap>>

\* TxStart from InitTxBridge on: on an error return it; else set the run
\* flag and assign the new thread to tx_worker (std::terminate if tx_worker
\* is still joinable).
TxStartInit ==
    /\ Alive /\ ctlPc = "TxStart_init"
    /\ \E outcome \in InitOutcomes :
        LET r == InitTxBridge(outcome) IN
        /\ tx_sock' = r.sock /\ fds' = r.fds /\ txFile' = r.file
        /\ ctlRet' = r.err
        /\ IF r.err # 0
           THEN UNCHANGED <<tx_run, tx_worker, txPeer, terminated>>
           ELSE /\ tx_run' = TRUE
                /\ txPeer' = "none"
                /\ IF Joinable(tx_worker)
                   THEN terminated' = "std::terminate" /\ tx_worker' = tx_worker
                   ELSE terminated' = terminated /\ tx_worker' = "start"
    /\ ctlPc' = "idle"
    /\ UNCHANGED <<client_tx_sock, tx_buff, txPacket>>
    /\ UNCHANGED <<rxVars, queueVars, ctlOp, ctlPrevOp, ctlEntry, calls, fr, heap>>

RxStart ==
    /\ Alive /\ ctlPc = "idle" /\ calls < MaxCalls
    /\ calls' = calls + 1
    /\ ctlPrevOp' = ctlOp /\ ctlOp' = "RxStart"
    /\ ctlEntry' = [run |-> rx_run, sock |-> rx_sock]
    /\ IF RxStartStopsFirst
       THEN rx_run' = FALSE /\ ctlPc' = "RxStop_join"
       ELSE rx_run' = rx_run /\ ctlPc' = "RxStart_init"
    /\ UNCHANGED <<rx_sock, client_rx_sock, rxBuff, rx_worker, rxPeer, rxFile,
                   rxStream, peerWrites, rxLast,
                   rxWritten, rxPrinted>>
    /\ UNCHANGED <<txVars, queueVars, ctlRet, fds, terminated, fr, heap>>

RxStop ==
    /\ Alive /\ ctlPc = "idle" /\ calls < MaxCalls
    /\ calls' = calls + 1
    /\ ctlPrevOp' = ctlOp /\ ctlOp' = "RxStop"
    /\ ctlEntry' = [run |-> rx_run, sock |-> rx_sock]
    /\ rx_run' = FALSE
    /\ ctlPc' = "RxStop_join"
    /\ UNCHANGED <<rx_sock, client_rx_sock, rxBuff, rx_worker, rxPeer, rxFile,
                   rxStream, peerWrites, rxLast,
                   rxWritten, rxPrinted>>
    /\ UNCHANGED <<txVars, queueVars, ctlRet, fds, terminated, fr, heap>>

RxStopJoin ==
    /\ Alive /\ ctlPc = "RxStop_join"
    /\ JoinReturns(rx_worker)
    /\ rx_worker' = "none"
    /\ rx_sock' = RxStopClose.sock
    /\ client_rx_sock' = RxStopClose.client
    /\ fds' = RxStopClose.fds
    /\ rxFile' = RxStopClose.file
    /\ rxPeer' = IF rx_sock # NoFd THEN "none" ELSE rxPeer
    /\ rxStream' = IF rx_sock # NoFd THEN <<>> ELSE rxStream
    /\ rxWritten' = IF rx_sock # NoFd THEN <<>> ELSE rxWritten
    /\ rxPrinted' = IF rx_sock # NoFd THEN <<>> ELSE rxPrinted
    /\ IF ctlOp = "RxStart"
       THEN ctlPc' = "RxStart_init" /\ ctlRet' = ctlRet
       ELSE IF ctlOp = "~Bridge"
       THEN ctlPc' = "~Bridge_TxStop" /\ ctlRet' = ctlRet
       ELSE ctlPc' = "idle" /\ ctlRet' = 0
    /\ UNCHANGED <<rx_run, rxBuff, peerWrites, rxLast>>
    /\ UNCHANGED <<txVars, queueVars, ctlOp, ctlPrevOp, ctlEntry, calls, terminated, fr, heap>>

RxStartInit ==
    /\ Alive /\ ctlPc = "RxStart_init"
    /\ \E outcome \in InitOutcomes :
        LET r == InitRxBridge(outcome) IN
        /\ rx_sock' = r.sock /\ fds' = r.fds /\ rxFile' = r.file
        /\ ctlRet' = r.err
        /\ IF r.err # 0
           THEN UNCHANGED <<rx_run, rx_worker, rxPeer, rxStream, rxWritten,
                            rxPrinted, terminated>>
           ELSE /\ rx_run' = TRUE
                /\ rxPeer' = "none"
                /\ rxStream' = <<>> /\ rxWritten' = <<>> /\ rxPrinted' = <<>>
                /\ IF Joinable(rx_worker)
                   THEN terminated' = "std::terminate" /\ rx_worker' = rx_worker
                   ELSE terminated' = terminated /\ rx_worker' = "start"
    /\ ctlPc' = "idle"
    /\ UNCHANGED <<client_rx_sock, rxBuff, peerWrites, rxLast>>
    /\ UNCHANGED <<txVars, queueVars, ctlOp, ctlPrevOp, ctlEntry, calls, fr, heap>>

\* Bridge::~Bridge: RxStop() up to its join ...
Destructor ==
    /\ Alive /\ ctlPc = "idle"
    /\ ctlPrevOp' = ctlOp /\ ctlOp' = "~Bridge"
    /\ ctlEntry' = [run |-> rx_run, sock |-> rx_sock]
    /\ rx_run' = FALSE
    /\ ctlPc' = "RxStop_join"
    /\ UNCHANGED <<rx_sock, client_rx_sock, rxBuff, rx_worker, rxPeer, rxFile,
                   rxStream, peerWrites, rxLast,
                   rxWritten, rxPrinted>>
    /\ UNCHANGED <<txVars, queueVars, ctlRet, calls, fds, terminated, fr, heap>>

\* ... and, RxStop having returned, TxStop() up to its join.
DestructorTxStop ==
    /\ Alive /\ ctlPc = "~Bridge_TxStop"
    /\ tx_run' = FALSE
    /\ ctlPc' = "TxStop_join"
    /\ UNCHANGED <<tx_sock, client_tx_sock, tx_buff, tx_worker, txPacket, txPeer, txFile>>
    /\ UNCHANGED <<rxVars, queueVars, ctlOp, ctlPrevOp, ctlRet, ctlEntry, calls,
                   fds, terminated, fr, heap>>

\* ------------------------------------------------------------- Tx worker
\* TxJob up to accept(): return if there is no socket or listen() fails.
TxJobListen ==
    /\ Alive /\ tx_worker = "start"
    /\ \E rc \in {0, -1} :
        tx_worker' = IF tx_sock = NoFd THEN "done"
                     ELSE IF rc # 0 THEN "failed" ELSE "accept"
    /\ UNCHANGED <<tx_run, tx_sock, client_tx_sock, tx_buff, txPacket, txPeer, txFile>>
    /\ UNCHANGED <<rxVars, queueVars, ctlVars, fds, terminated, fr, heap>>

\* accept() returns once a peer has connected: with a new descriptor, or
\* with -1 (no descriptor left, or the connection was aborted).
TxJobAccept ==
    /\ Alive /\ tx_worker = "accept"
    /\ txPeer = "pending"
    /\ \/ /\ FreeFds # {}
          /\ client_tx_sock' = LowestFree
          /\ fds' = [fds EXCEPT ![LowestFree] = "client_tx"]
          /\ txPeer' = "open"
          /\ tx_worker' = "loop"
       \/ /\ client_tx_sock' = -1
          /\ fds' = fds
          /\ txPeer' = "none"
          /\ tx_worker' = "failed"
    /\ UNCHANGED <<tx_run, tx_sock, tx_buff, txPacket, txFile>>
    /\ UNCHANGED <<rxVars, queueVars, ctlVars, terminated, fr, heap>>

\* while (tx_run.load()) { ...
TxLoopIgnoresFlag == TRUE

\* The loop condition: tx_run.load().
TxLoopContinues == tx_run

TxJobLoop ==
    /\ Alive /\ tx_worker = "loop"
    /\ tx_worker' = IF TxLoopContinues THEN "lock" ELSE "done"
    /\ UNCHANGED <<tx_run, tx_sock, client_tx_sock, tx_buff, txPacket, txPeer, txFile>>
    /\ UNCHANGED <<rxVars, queueVars, ctlVars, fds, terminated, fr, heap>>

\* What _txLock and _txQueue refer to.
TxLockHolder == IF txRef = "global" THEN txLock ELSE txQueueLock
TxQueueEmpty == IF txRef = "global" THEN gtxQueue = <<>> ELSE txQueue = <<>>

\* The locks after _txLock has gone to holder h.
TxLockSet(h) ==
    IF txRef = "global" THEN [gtx |-> h, own |-> txQueueLock]
    ELSE [gtx |-> txLock, own |-> h]

\* ... _txLock.lock(); it blocks while another thread holds that lock.
TxJobLock ==
    /\ Alive /\ tx_worker = "lock"
    /\ TxLockHolder = "free"
    /\ txLock' = TxLockSet("TxJob").gtx
    /\ txQueueLock' = TxLockSet("TxJob").own
    /\ tx_worker' = "locked"
    /\ UNCHANGED <<tx_run, tx_sock, client_tx_sock, tx_buff, txPacket, txPeer, txFile>>
    /\ UNCHANGED <<rxVars, gtxQueue, enqueued, sent, txRef, txQueue, ctlVars, fds,
                   terminated, fr, heap>>

TxDequeueBack(q) == [packet |-> q[Len(q)], queue |-> SubSeq(q, 1, Len(q) - 1)]

TxDequeueNoPop(q) == [packet |-> Head(q), queue |-> q]

\* The packet TxJob takes out of the queue: front(), then pop().
TxDequeue(q) == [packet |-> Head(q), queue |-> Tail(q)]

\* What front() of an empty queue can give when the process goes on.
GarbagePacket == [command |-> 65535, packetID |-> 65535, dataSize |-> 0, data |-> <<>>]

TxLockKept == "TxJob"

\* The holder of _txLock after the unlock() that follows the pop().
TxLockAfterDequeue == "free"

\* ... if _txQueue is empty unlock and sleep, else take the front packet of
\* _gtxQueue and unlock.  front() and pop() of an empty _gtxQueue are
\* undefined: the process is ended, or goes on with whatever front() gave.
TxJobLocked ==
    /\ Alive /\ tx_worker = "locked"
    /\ IF TxQueueEmpty
       THEN /\ tx_worker' = "loop"
            /\ txLock' = TxLockSet("free").gtx
            /\ txQueueLock' = TxLockSet("free").own
            /\ UNCHANGED <<txPacket, gtxQueue, terminated>>
       ELSE /\ IF gtxQueue # <<>>
               THEN /\ txPacket' = TxDequeue(gtxQueue).packet
                    /\ gtxQueue' = TxDequeue(gtxQueue).queue
                    /\ terminated' = terminated
               ELSE /\ terminated' \in IF Len(sent) < MaxSent THEN {"no", "SIGSEGV"}
                                       ELSE {"SIGSEGV"}
                    /\ txPacket' = GarbagePacket
                    /\ gtxQueue' = gtxQueue
            /\ txLock' = TxLockSet(TxLockAfterDequeue).gtx
            /\ txQueueLock' = TxLockSet(TxLockAfterDequeue).own
            /\ tx_worker' = "send"
    /\ UNCHANGED <<tx_run, tx_sock, client_tx_sock, tx_buff, txPeer, txFile>>
    /\ UNCHANGED <<rxVars, enqueued, sent, txRef, txQueue, ctlVars, fds, fr, heap>>

\* The stores into tx_buff run past its end when the packet is longer than
\* the buffer: undefined behaviour, the bytes land in what follows tx_buff
\* or the process is ended.
TxWriteOutcomes(pkt) ==
    IF TxPacketSize(pkt) > BRIDGE_BUFFER_SIZE THEN {"no", "SIGSEGV"} ELSE {"no"}

\* send() on a connection the peer has closed raises SIGPIPE (the process
\* ends unless the signal is ignored, and then send() returns -1).
TxSendOutcomes == IF txPeer = "closed" THEN {"no", "SIGPIPE"} ELSE {"no"}

\* The else branch of the loop after the unlock: serialise txPacket into
\* tx_buff, send() it, free it.
TxSendPacket ==
    /\ txPeer \in {"open", "closed"}
    /\ tx_buff' = TxSerialize(tx_buff, txPacket)
    /\ terminated' \in TxWriteOutcomes(txPacket) \cup TxSendOutcomes
    /\ sent' = IF terminated' = "SIGSEGV" THEN sent
               ELSE Append(sent, [packet |-> txPacket,
                                  bytes |-> TxSendBytes(tx_buff', txPacket),
                                  rc |-> IF txPeer = "open"
                                         THEN TxPacketSize(txPacket) ELSE -1])
    /\ heap' = IF terminated' = "no" THEN FreeRecord(heap) ELSE heap
    /\ txPacket' = NoPacket

TxJobSend ==
    /\ Alive /\ tx_worker = "send"
    /\ TxSendPacket
    /\ tx_worker' = "loop"
    /\ UNCHANGED <<tx_run, tx_sock, client_tx_sock, txPeer, txFile>>
    /\ UNCHANGED <<rxVars, gtxQueue, txLock, enqueued, txRef, txQueue, txQueueLock,
                   ctlVars, fds, fr>>

\* ------------------------------------------------------------- Rx worker
RxJobListen ==
    /\ Alive /\ rx_worker = "start"
    /\ \E rc \in {0, -1} :
        rx_worker' = IF rx_sock = NoFd THEN "done"
                     ELSE IF rc # 0 THEN "failed" ELSE "accept"
    /\ UNCHANGED <<rx_run, rx_sock, client_rx_sock, rxBuff, rxPeer, rxFile,
                   rxStream, peerWrites, rxLast,
                   rxWritten, rxPrinted>>
    /\ UNCHANGED <<txVars, queueVars, ctlVars, fds, terminated, fr, heap>>

RxJobAccept ==
    /\ Alive /\ rx_worker = "accept"
    /\ rxPeer = "pending"
    /\ \/ /\ FreeFds # {}
          /\ client_rx_sock' = LowestFree
          /\ fds' = [fds EXCEPT ![LowestFree] = "client_rx"]
          /\ rxPeer' = "open"
          /\ UNCHANGED <<rxStream, rxWritten, rxPrinted>>
          /\ rx_worker' = "loop"
       \/ /\ client_rx_sock' = -1
          /\ fds' = fds
          /\ rxPeer' = "none"
          /\ rxStream' = <<>> /\ rxWritten' = <<>> /\ rxPrinted' = <<>>
          /\ rx_worker' = "failed"
    /\ UNCHANGED <<rx_run, rx_sock, rxBuff, rxFile, peerWrites, rxLast>>
    /\ UNCHANGED <<txVars, queueVars, ctlVars, terminated, fr, heap>>

\* while (rx_run.load()) { ... recv() is entered.
\* The loop condition: rx_run.load().
RxLoopContinues == rx_run

RxJobLoop ==
    /\ Alive /\ rx_worker = "loop"
    /\ rx_worker' = IF RxLoopContinues THEN "recv" ELSE "done"
    /\ UNCHANGED <<rx_run, rx_sock, client_rx_sock, rxBuff, rxPeer, rxFile,
                   rxStream, peerWrites, rxLast,
                   rxWritten, rxPrinted>>
    /\ UNCHANGED <<txVars, queueVars, ctlVars, fds, terminated, fr, heap>>

\* What recv() returns: n > 0 bytes when bytes are waiting, 0 at the end of
\* the stream (the peer has closed), -1 on an error; it blocks otherwise.
RecvResults ==
    IF rxPeer = "error" THEN {-1}
    ELSE IF rxStream # <<>> THEN RecvLens(Len(rxStream))
    ELSE IF rxPeer = "closed" THEN {0}
    ELSE {}

\* The run flag after recv() returned packet_size.
RxRunAfterRecv(packet_size) == IF packet_size = -1 THEN FALSE ELSE rx_run

\* Whether the iteration goes on to reconstruct a packet (no continue).
RxProcesses(packet_size) == packet_size > 0 \/ packet_size = -1

\* One iteration of the loop from recv() on: recv() into rxBuff; on -1 clear
\* the run flag; on 0 sleep and continue; else reconstruct the packet from
\* rxBuff, print it and free it.
RxRecvAndProcess ==
    \E packet_size \in RecvResults :
        LET n == IF packet_size > 0 THEN packet_size ELSE 0
            buf == Overlay(rxBuff, SubSeq(rxStream, 1, n))
        IN
        /\ rxBuff' = buf
        /\ rxStream' = SubSeq(rxStream, n + 1, Len(rxStream))
        /\ rx_run' = RxRunAfterRecv(packet_size)
        /\ IF RxProcesses(packet_size)
           THEN \E h \in RxHeaders(buf) :
                    /\ rxLast' = [size |-> packet_size, hdrSize |-> h.dataSize,
                                  built |-> TRUE, packet |-> RxReconstruct(buf, h)]
                    /\ rxPrinted' = Append(rxPrinted, RxReconstruct(buf, h))
                    /\ heap' = FreePacket(AllocPacket(heap))
           ELSE /\ rxLast' = [size |-> packet_size, hdrSize |-> 0,
                              built |-> FALSE, packet |-> NoPacket]
                /\ rxPrinted' = rxPrinted
                /\ heap' = heap

RxJobRecv ==
    /\ Alive /\ rx_worker = "recv"
    /\ RxRecvAndProcess
    /\ rx_worker' = "loop"
    /\ UNCHANGED <<rx_sock, client_rx_sock, rxPeer, rxFile, peerWrites, rxWritten>>
    /\ UNCHANGED <<txVars, queueVars, ctlVars, fds, terminated, fr>>

\* --------------------------------------------------------------- producer
\* A producer pushes a packet on the outbound queue under the queue's lock.
ProducerLock ==
    /\ Alive /\ txLock = "free"
    /\ Len(enqueued) < MaxEnqueue
    /\ txLock' = "producer"
    /\ UNCHANGED <<txVars, rxVars, gtxQueue, enqueued, txRef, txQueue, txQueueLock, sent, ctlVars,
                   fds, terminated, fr, heap>>

ProducerPush ==
    /\ Alive /\ txLock = "producer"
    /\ \E pkt \in ProducerPackets(Len(enqueued) + 1) :
        /\ gtxQueue' = Append(gtxQueue, pkt)
        /\ enqueued' = Append(enqueued, pkt)
    /\ heap' = AllocPacket(heap)
    /\ txLock' = "free"
    /\ UNCHANGED <<txVars, rxVars, sent, txRef, txQueue, txQueueLock, ctlVars, fds,
                   terminated, fr>>

\* The producer of a Bridge constructed with its own queue pushes on that
\* queue under that queue's lock.
OwnProducerLock ==
    /\ Alive /\ txRef = "own" /\ txQueueLock = "free"
    /\ Len(txQueue) < MaxEnqueue
    /\ txQueueLock' = "producer"
    /\ UNCHANGED <<txVars, rxVars, gtxQueue, txLock, enqueued, sent, txRef, txQueue,
                   ctlVars, fds, terminated, fr, heap>>

OwnProducerPush ==
    /\ Alive /\ txRef = "own" /\ txQueueLock = "producer"
    /\ \E pkt \in ProducerPackets(Len(txQueue) + 1) : txQueue' = Append(txQueue, pkt)
    /\ heap' = AllocPacket(heap)
    /\ txQueueLock' = "free"
    /\ UNCHANGED <<txVars, rxVars, gtxQueue, txLock, enqueued, sent, txRef,
                   ctlVars, fds, terminated, fr>>

\* ------------------------------------------------------------------ peers
\* What the peer writes on the inbound channel in one write: a whole frame,
\* or a header declaring more payload than a frame can carry.
PeerChunks ==
    { TxFrame(EVPacket(31, 7980, <<1, 2>>)),
      StoreU16(2) \o StoreU16(3) \o StoreU16(MAX_PAYLOAD + 1) }

PeerConnectTx ==
    /\ Alive /\ tx_worker = "accept" /\ txPeer = "none"
    /\ txPeer' = "pending"
    /\ UNCHANGED <<tx_run, tx_sock, client_tx_sock, tx_buff, tx_worker, txPacket, txFile>>
    /\ UNCHANGED <<rxVars, queueVars, ctlVars, fds, terminated, fr, heap>>

PeerCloseTx ==
    /\ Alive /\ txPeer = "open"
    /\ txPeer' = "closed"
    /\ UNCHANGED <<tx_run, tx_sock, client_tx_sock, tx_buff, tx_worker, txPacket, txFile>>
    /\ UNCHANGED <<rxVars, queueVars, ctlVars, fds, terminated, fr, heap>>

PeerConnectRx ==
    /\ Alive /\ rx_worker = "accept" /\ rxPeer = "none"
    /\ rxPeer' = "pending"
    /\ UNCHANGED <<rx_run, rx_sock, client_rx_sock, rxBuff, rx_worker, rxFile,
                   rxStream, peerWrites, rxLast,
                   rxWritten, rxPrinted>>
    /\ UNCHANGED <<txVars, queueVars, ctlVars, fds, terminated, fr, heap>>

\* The peer writes one of the chunks: the bytes queue behind those not yet
\* read.
PeerWriteOf(chunks) ==
    /\ Alive /\ rxPeer \in {"pending", "open"}
    /\ peerWrites < MaxPeerWrites
    /\ \E chunk \in chunks :
        /\ rxStream' = rxStream \o chunk
        /\ rxWritten' = rxWritten \o chunk
    /\ peerWrites' = peerWrites + 1
    /\ UNCHANGED <<rx_run, rx_sock, client_rx_sock, rxBuff, rx_worker, rxPeer, rxFile,
                   rxLast, rxPrinted>>
    /\ UNCHANGED <<txVars, queueVars, ctlVars, fds, terminated, fr, heap>>

PeerWrite == PeerWriteOf(PeerChunks)

\* The peer closes its end: after the bytes already written, recv() returns 0.
PeerCloseRx ==
    /\ Alive /\ rxPeer = "open"
    /\ rxPeer' = "closed"
    /\ UNCHANGED <<rx_run, rx_sock, client_rx_sock, rxBuff, rx_worker, rxFile,
                   rxStream, peerWrites, rxLast,
                   rxWritten, rxPrinted>>
    /\ UNCHANGED <<txVars, queueVars, ctlVars, fds, terminated, fr, heap>>

\* The connection fails: recv() returns -1.
PeerErrorRx ==
    /\ Alive /\ rxPeer = "open"
    /\ rxPeer' = "error"
    /\ UNCHANGED <<rx_run, rx_sock, client_rx_sock, rxBuff, rx_worker, rxFile,
                   rxStream, peerWrites, rxLast,
                   rxWritten, rxPrinted>>
    /\ UNCHANGED <<txVars, queueVars, ctlVars, fds, terminated, fr, heap>>

\* ---------------------------------------------------------- specification
Control == TxStart \/ TxStop \/ TxStopJoin \/ TxStartInit
           \/ RxStart \/ RxStop \/ RxStopJoin \/ RxStartInit
           \/ Destructor \/ DestructorTxStop
TxJob == TxJobListen \/ TxJobAccept \/ TxJobLoop \/ TxJobLock \/ TxJobLocked
         \/ TxJobSend
RxJob == RxJobListen \/ RxJobAccept \/ RxJobLoop \/ RxJobRecv
Producer == ProducerLock \/ ProducerPush
Peer == PeerConnectTx \/ PeerCloseTx \/ PeerConnectRx \/ PeerWrite
        \/ PeerCloseRx \/ PeerErrorRx

\* The whole system.
Next == Control \/ TxJob \/ RxJob \/ Producer \/ Peer

Spec == Init /\ [][Next]_vars

\* The outbound direction alone: the control thread calls TxStart and TxStop
\* only.
NextTx == TxStart \/ TxStop \/ TxStopJoin \/ TxStartInit
          \/ TxJob \/ Producer \/ PeerConnectTx \/ PeerCloseTx

SpecTx == Init /\ [][NextTx]_vars

\* The outbound direction of a Bridge constructed with its own queue and
\* lock; _gtxQueue has its producer as before.
OwnProducer == OwnProducerLock \/ OwnProducerPush

NextOwn == NextTx \/ OwnProducer

SpecOwn == InitOwn /\ [][NextOwn]_vars

\* The inbound direction alone.
NextRx == RxStart \/ RxStop \/ RxStopJoin \/ RxStartInit
          \/ RxJob \/ PeerConnectRx \/ PeerWrite \/ PeerCloseRx \/ PeerErrorRx

SpecRx == Init /\ [][NextRx]_vars

\* Both directions with no traffic: nothing is pushed on the outbound queue
\* and the inbound peer writes nothing (it connects, closes, fails).
NextLife == Control
            \/ TxJobListen \/ TxJobAccept \/ TxJobLoop \/ TxJobLock \/ TxJobLocked
            \/ RxJob
            \/ PeerConnectTx \/ PeerCloseTx \/ PeerConnectRx \/ PeerCloseRx \/ PeerErrorRx

SpecLife == Init /\ [][NextLife]_vars

\* Threads that can take a step do take it: the control thread inside a
\* call, and the two workers.  Nothing is assumed of the peers, of the
\* producer, or of when the control thread makes its next call.
Fairness ==
    /\ WF_vars(TxStopJoin) /\ WF_vars(TxStartInit)
    /\ WF_vars(RxStopJoin) /\ WF_vars(RxStartInit)
    /\ WF_vars(DestructorTxStop)
    /\ WF_vars(TxJobListen) /\ WF_vars(TxJobAccept) /\ WF_vars(TxJobLoop)
    /\ WF_vars(TxJobLock) /\ WF_vars(TxJobLocked) /\ WF_vars(TxJobSend)
    /\ WF_vars(RxJobListen) /\ WF_vars(RxJobAccept) /\ WF_vars(RxJobLoop)
    /\ WF_vars(RxJobRecv)

FairSpecRx == SpecRx /\ Fairness
FairSpecLife == SpecLife /\ Fairness

\* ------------------------------------------------------- framing functions
\* The serialisation of TxJob and the reconstruction of RxJob applied to one
\* packet, or the reconstruction applied to raw inbound bytes, with no
\* threads: buffers of any earlier contents, payloads of any legal length.
FrData(n) == [i \in 1..n |-> (7 * i + n) % 256]

FrLens == {0, 1, 5, MAX_PAYLOAD - 1, MAX_PAYLOAD}

\* Payload lengths a uint16 dataSize can also hold.
FrOverlong == {MAX_PAYLOAD + 1, 65535}

FrPackets ==
    {TestPacket} \cup
    {EVPacket(c, id, FrData(n)) : c \in {1, 513, 65535}, id \in {0, 2056, 65280}, n \in FrLens}
    \cup {EVPacket(1, 2056, FrData(n)) : n \in FrOverlong}

\* Earlier contents of a buffer.
FrStale == {<<>>, [i \in 1..12 |-> 255]}

\* Inbound bytes whose header declares more than MAX_PAYLOAD bytes of
\* payload, followed by k more bytes.
FrOversize ==
    {StoreU16(c) \o StoreU16(3) \o StoreU16(n) \o FrData(k) :
        c \in {2, 65535}, n \in {MAX_PAYLOAD + 1, 65535},
        k \in {0, 3, MAX_PAYLOAD, MAX_PAYLOAD + 10}}

InitFraming ==
    /\ tx_run = TRUE /\ rx_run = TRUE
    /\ tx_sock = 1 /\ rx_sock = 2 /\ client_tx_sock = 3 /\ client_rx_sock = 4
    /\ fds = [f \in 1..MaxFds |->
                 IF f = 1 THEN "tx_sock" ELSE IF f = 2 THEN "rx_sock"
                 ELSE IF f = 3 THEN "client_tx" ELSE IF f = 4 THEN "client_rx"
                 ELSE "free"]
    /\ tx_worker = "send" /\ rx_worker = "recv"
    /\ tx_buff \in FrStale /\ rxBuff \in FrStale
    /\ \/ /\ txPacket \in FrPackets
          /\ rxStream = <<>>
          /\ fr = [stage |-> "packet", packet |-> txPacket]
          /\ heap = AllocPacket(NoHeap)
       \/ /\ txPacket = NoPacket
          /\ rxStream \in FrOversize
          /\ fr = [stage |-> "bytes", packet |-> NoPacket]
          /\ heap = NoHeap
    /\ gtxQueue = <<>> /\ txLock = "free"
    /\ enqueued = <<>> /\ sent = <<>>
    /\ txRef = "global" /\ txQueue = <<>> /\ txQueueLock = "free"
    /\ txFile = TRUE /\ rxFile = TRUE
    /\ txPeer = "open" /\ rxPeer = "open"
    /\ peerWrites = 0
    /\ rxLast = NoRx
    /\ rxWritten = rxStream /\ rxPrinted = <<>>
    /\ ctlPc = "idle" /\ ctlOp = "none" /\ ctlRet = 0 /\ ctlPrevOp = "none"
    /\ ctlEntry = [run |-> FALSE, sock |-> NoFd] /\ calls = 0
    /\ terminated = "no"

\* TxJob's serialisation of the packet; the bytes handed to send() are what
\* the reconstruction is then given.
FrSerialize ==
    /\ fr.stage = "packet"
    /\ TxSendPacket
    /\ rxStream' = IF sent' = sent THEN <<>> ELSE sent'[Len(sent')].bytes
    /\ rxWritten' = rxStream'
    /\ fr' = [fr EXCEPT !.stage = "bytes"]
    /\ UNCHANGED <<tx_run, tx_sock, client_tx_sock, tx_worker, txPeer, txFile>>
    /\ UNCHANGED <<rx_run, rx_sock, client_rx_sock, rxBuff, rx_worker, rxPeer, rxFile,
                   peerWrites, rxLast, rxPrinted>>
    /\ UNCHANGED <<gtxQueue, txLock, enqueued, txRef, txQueue, txQueueLock, ctlVars, fds>>

\* RxJob's recv() and reconstruction on the bytes.
FrParse ==
    /\ fr.stage = "bytes"
    /\ RxRecvAndProcess
    /\ fr' = [fr EXCEPT !.stage = "parsed"]
    /\ UNCHANGED <<rx_sock, client_rx_sock, rx_worker, rxPeer, rxFile, peerWrites,
                   rxWritten>>
    /\ UNCHANGED <<txVars, queueVars, ctlVars, fds, terminated>>

NextFraming == FrSerialize \/ FrParse

SpecFraming == InitFraming /\ [][NextFraming]_vars

\* ------------------------------------------------- one inbound connection
\* RxJob in its loop on an accepted connection, and a peer that writes
\* frames whole, in two parts, or several before RxJob reads.
SmallFrame == TxFrame(EVPacket(31, 7980, <<1, 2, 3, 4>>))
FullFrame == TxFrame(EVPacket(513, 2, FrData(MAX_PAYLOAD)))

StreamChunks ==
    { SmallFrame,
      SubSeq(SmallFrame, 1, 3), SubSeq(SmallFrame, 4, Len(SmallFrame)),
      FullFrame }

PeerWriteStream == PeerWriteOf(StreamChunks)

InitStream ==
    /\ tx_run = FALSE /\ tx_sock = NoFd /\ client_tx_sock = NoFd
    /\ tx_buff = <<>> /\ tx_worker = "none" /\ txPacket = NoPacket
    /\ rx_run = TRUE /\ rx_sock = 1 /\ client_rx_sock = 2
    /\ fds = [f \in 1..MaxFds |->
                 IF f = 1 THEN "rx_sock" ELSE IF f = 2 THEN "client_rx" ELSE "free"]
    /\ rx_worker = "loop" /\ rxBuff = <<>>
    /\ gtxQueue = <<>> /\ txLock = "free"
    /\ enqueued = <<>> /\ sent = <<>>
    /\ txRef = "global" /\ txQueue = <<>> /\ txQueueLock = "free"
    /\ txFile = FALSE /\ rxFile = TRUE
    /\ txPeer = "none" /\ rxPeer = "open"
    /\ rxStream = <<>> /\ peerWrites = 0
    /\ rxLast = NoRx
    /\ rxWritten = <<>> /\ rxPrinted = <<>>
    /\ ctlPc = "idle" /\ ctlOp = "RxStart" /\ ctlRet = 0 /\ ctlPrevOp = "none"
    /\ ctlEntry = [run |-> FALSE, sock |-> NoFd] /\ calls = 1
    /\ terminated = "no"
    /\ fr = FrIdle
    /\ heap = NoHeap

NextStream == PeerWriteStream \/ RxJobLoop \/ RxJobRecv \/ PeerCloseRx

SpecStream == InitStream /\ [][NextStream]_vars

\* ------------------------------------------------------------------ claims
\* C1: the packets handed to send() are, in order, the packets pushed on the
\* queue: the i-th send is of the i-th packet pushed, whatever the
\* interleaving of the producer and TxJob.
FifoOrder ==
    \A i \in 1..Len(sent) : i <= Len(enqueued) /\ sent[i].packet = enqueued[i]

FifoOrderWitness ==
    /\ Len(sent) >= 2
    /\ sent[1].packet # sent[2].packet

\* C2: every send() is of exactly 6 + dataSize bytes: command, packetID and
\* dataSize low byte first, then the payload; runSocketTest's packet goes
\* out as 01 00 08 08 05 00 01 02 03 04 05.
WireFormat ==
    \A i \in 1..Len(sent) :
        LET b == sent[i].bytes
            p == sent[i].packet
        IN  /\ Len(b) = 6 + p.dataSize
            /\ \A j \in 1..Len(b) : b[j] \in 0..255
            /\ b[1] + 256 * b[2] = p.command
            /\ b[3] + 256 * b[4] = p.packetID
            /\ b[5] + 256 * b[6] = p.dataSize
            /\ \A j \in 1..p.dataSize : b[6 + j] = p.data[j]
            /\ (p = TestPacket => b = <<1, 0, 8, 8, 5, 0, 1, 2, 3, 4, 5>>)

\* The test packet was sent, and a shorter packet after it (tx_buff then
\* still holds the tail of the test packet).
WireFormatWitness ==
    /\ Len(sent) >= 2
    /\ sent[1].packet = TestPacket
    /\ Len(tx_buff) > Len(sent[2].bytes)

\* C3: a packet of 0..MAX_PAYLOAD payload bytes, serialised as TxJob does
\* and reconstructed as RxJob does, comes out with the same command,
\* packetID, dataSize and payload.
RoundTrip ==
    (fr.stage = "parsed" /\ fr.packet # NoPacket /\ fr.packet.dataSize <= MAX_PAYLOAD) =>
        /\ rxLast.built
        /\ rxLast.packet.command = fr.packet.command
        /\ rxLast.packet.packetID = fr.packet.packetID
        /\ rxLast.packet.dataSize = fr.packet.dataSize
        /\ rxLast.packet.data = fr.packet.data

RoundTripWitness ==
    /\ fr.stage = "parsed"
    /\ fr.packet # NoPacket
    /\ fr.packet.dataSize = MAX_PAYLOAD
    /\ fr.packet.command = 513
    /\ rxLast.built

\* C4: when the header read declares more than MAX_PAYLOAD payload bytes,
\* recv() has put at most BRIDGE_BUFFER_SIZE bytes into rxBuff (so at most
\* MAX_PAYLOAD bytes of payload), nothing lies beyond the end of rxBuff, and
\* the packet built has dataSize 1 and a 1-byte payload.
OversizeGuard ==
    (rxLast.built /\ rxLast.hdrSize > MAX_PAYLOAD) =>
        /\ rxLast.size <= BRIDGE_BUFFER_SIZE
        /\ rxLast.size - HEADER_SIZE <= MAX_PAYLOAD
        /\ Len(rxBuff) <= BRIDGE_BUFFER_SIZE
        /\ rxLast.packet.dataSize = 1
        /\ Len(rxLast.packet.data) = 1

\* An oversize header was read with more bytes waiting than rxBuff holds.
OversizeGuardWitness ==
    /\ fr.stage = "parsed"
    /\ rxLast.built
    /\ rxLast.hdrSize = 65535
    /\ rxLast.size = BRIDGE_BUFFER_SIZE
    /\ rxStream # <<>>

\* C5: once the peer has closed the inbound connection while RxJob is in
\* its loop, RxJob leaves the loop.
DisconnectExits ==
    (rxPeer = "closed" /\ rx_worker \in {"loop", "recv"})
        ~> (rx_worker \in {"done", "none"} \/ ~Alive)

\* C6: a stop that has been called returns: the control thread does not
\* stay in TxStop or RxStop for ever.
StopReturns ==
    (ctlPc \in {"TxStop_join", "RxStop_join"})
        ~> (ctlPc \notin {"TxStop_join", "RxStop_join"} \/ ~Alive)

\* The stopped state of each direction.
TxStopped == ~tx_run /\ tx_worker = "none" /\ tx_sock = NoFd
RxStopped == ~rx_run /\ rx_worker = "none" /\ rx_sock = NoFd

\* C7: whenever TxStop (RxStop) has returned, first call or repeated, on an
\* engine started or not, it returned 0, no worker of that direction is
\* left, the run flag is false and the socket field is -1.
StopIdempotent ==
    /\ (ctlPc = "idle" /\ ctlOp = "TxStop") => (ctlRet = 0 /\ TxStopped)
    /\ (ctlPc = "idle" /\ ctlOp = "RxStop") => (ctlRet = 0 /\ RxStopped)

\* A stop right after a stop, on an engine that had been started and had
\* accepted its peer.
StopIdempotentWitness ==
    /\ ctlPc = "idle" /\ calls = 3
    /\ ctlOp = "TxStop" /\ ctlPrevOp = "TxStop"
    /\ ~ctlEntry.run /\ ctlEntry.sock = NoFd
    /\ OpenFds("client_tx") # {}

\* C8: a start called with the run flag set goes through the stopped state
\* before it creates the new endpoint (old worker joined, the descriptor it
\* held no longer that listening socket, its path removed), and when it
\* has returned 0 no thread assignment has ended the process and the
\* direction has its one worker.
RestartIsStopThenStart ==
    /\ (ctlPc = "TxStart_init" /\ ctlEntry.run) =>
           /\ TxStopped /\ client_tx_sock = NoFd
           /\ fds[ctlEntry.sock] # "tx_sock" /\ ~txFile
    /\ (ctlPc = "RxStart_init" /\ ctlEntry.run) =>
           /\ RxStopped
           /\ fds[ctlEntry.sock] # "rx_sock" /\ ~rxFile
    /\ (ctlPc = "idle" /\ ctlOp = "TxStart" /\ ctlEntry.run /\ ctlRet = 0) =>
           /\ terminated # "std::terminate" /\ tx_run /\ tx_worker # "none"
           /\ tx_sock # NoFd /\ fds[tx_sock] = "tx_sock"
    /\ (ctlPc = "idle" /\ ctlOp = "RxStart" /\ ctlEntry.run /\ ctlRet = 0) =>
           /\ terminated # "std::terminate" /\ rx_worker # "none"
           /\ rx_sock # NoFd /\ fds[rx_sock] = "rx_sock"

\* TxStart has returned 0 on an engine whose worker was in its loop.
RestartWitness ==
    /\ ctlPc = "idle" /\ ctlOp = "TxStart" /\ ctlPrevOp = "TxStart"
    /\ ctlEntry.run /\ ctlRet = 0
    /\ tx_worker = "start"
    /\ Cardinality(OpenFds("client_tx")) = 1

\* C9: no sequence of lifecycle calls, peer events and worker exits ends the
\* process.
NeverTerminates == terminated = "no"

\* C10: when a start has returned an error, the run flag is false, the
\* direction has no worker, and no socket of the direction is open.
InitFailureLeavesStopped ==
    /\ (ctlPc = "idle" /\ ctlOp = "TxStart" /\ ctlRet # 0) =>
           (TxStopped /\ OpenFds("tx_sock") = {})
    /\ (ctlPc = "idle" /\ ctlOp = "RxStart" /\ ctlRet # 0) =>
           (~rx_run /\ rx_sock = NoFd /\ OpenFds("rx_sock") = {})

\* C11: when listen() or accept() has failed in a worker, the start that
\* launched it reports an error and the run flag of that direction is false.
HandshakeFailureStops ==
    /\ tx_worker = "failed" => (~tx_run /\ (ctlOp = "TxStart" => ctlRet # 0))
    /\ rx_worker = "failed" => (~rx_run /\ (ctlOp = "RxStart" => ctlRet # 0))

\* C12: when the destructor has completed, no worker is left, every
\* descriptor the bridge opened (listening sockets and accepted connections)
\* is closed, and both socket paths are removed.
DestructorReleases ==
    ctlPc = "destroyed" =>
        /\ tx_worker = "none" /\ rx_worker = "none"
        /\ \A f \in DOMAIN fds : fds[f] = "free"
        /\ ~txFile /\ ~rxFile

\* C13: no frame handed to send() declares more than MAX_PAYLOAD payload
\* bytes, and the bytes stored into tx_buff never reach beyond its
\* BRIDGE_BUFFER_SIZE bytes, whatever dataSize (0..65535) the packet has.
TxFrameBounded ==
    /\ Len(tx_buff) <= BRIDGE_BUFFER_SIZE
    /\ terminated # "SIGSEGV"
    /\ \A i \in 1..Len(sent) :
           /\ sent[i].packet.dataSize <= MAX_PAYLOAD
           /\ Len(sent[i].bytes) <= BRIDGE_BUFFER_SIZE

\* The frame at the head of b: its declared payload length and its end.
FrameSize(b) == LoadU16(b[5], b[6])
FrameEnd(b) == HEADER_SIZE + FrameSize(b)

\* b is a sequence of whole frames, each of at most MAX_PAYLOAD payload bytes.
RECURSIVE WellFramed(_)
WellFramed(b) ==
    \/ b = <<>>
    \/ /\ Len(b) >= HEADER_SIZE
       /\ FrameSize(b) <= MAX_PAYLOAD
       /\ Len(b) >= FrameEnd(b)
       /\ WellFramed(SubSeq(b, FrameEnd(b) + 1, Len(b)))

\* The packets of the frames of b, in order.
RECURSIVE FramePackets(_)
FramePackets(b) ==
    IF b = <<>> THEN <<>>
    ELSE << [command |-> LoadU16(b[1], b[2]), packetID |-> LoadU16(b[3], b[4]),
             dataSize |-> FrameSize(b),
             data |-> SubSeq(b, HEADER_SIZE + 1, FrameEnd(b))] >>
         \o FramePackets(SubSeq(b, FrameEnd(b) + 1, Len(b)))

\* RxJob has read everything the peer wrote and is between iterations.
RxCaughtUp == rx_worker = "loop" /\ rxStream = <<>> /\ rxPeer \in {"open", "closed"}

\* C14: when RxJob has read all the peer wrote, and what the peer wrote was
\* whole frames, the packets RxJob reconstructed are exactly those of the
\* frames, one per frame and in order, however the writes fell between the
\* reads.
FramesReconstructed ==
    (RxCaughtUp /\ WellFramed(rxWritten)) => rxPrinted = FramePackets(rxWritten)

\* C15: a send() that failed has not ended the process, and TxJob is still
\* in its loop (it has not returned because of the failure).
WriteFailureNotFatal ==
    (\E i \in 1..Len(sent) : sent[i].rc = -1) =>
        /\ terminated # "SIGPIPE"
        /\ tx_worker # "failed"

\* C16: the live allocations are those of the packets still in the queue
\* and of the packet TxJob holds: every record and every payload buffer of a
\* packet sent (or reconstructed and printed) has been freed.
PacketsReleased ==
    LET live == Len(gtxQueue) + (IF txPacket = NoPacket THEN 0 ELSE 1)
    IN  heap.packets = live /\ heap.data = live

\* C17: TxJob holds a queue lock only between its lock() and the unlock()
\* of that iteration: while it serialises, sends, sleeps or waits it holds
\* none, and when it holds one its next step, which releases it, can always
\* be taken.
LockNotHeldAcrossIO ==
    /\ tx_worker # "locked" => (txLock # "TxJob" /\ txQueueLock # "TxJob")
    /\ (tx_worker = "locked" /\ Alive) => ENABLED TxJobLocked

\* A producer holds the lock while TxJob is sending a packet.
LockNotHeldAcrossIOWitness ==
    /\ tx_worker = "send" /\ txPeer = "open"
    /\ txLock = "producer"

\* C18: when TxJob is about to take the front packet (it holds _txLock and
\* has seen _txQueue non-empty), the queue it takes it from is non-empty
\* and TxJob holds the lock that guards that queue.
QueueAccessGuarded ==
    (tx_worker = "locked" /\ ~TxQueueEmpty) =>
        /\ gtxQueue # <<>>
        /\ txLock = "TxJob"

\* C19: an iteration whose recv() reported the disconnect or error (-1)
\* reconstructs no packet: nothing is built or printed from what rxBuff
\* held before.
FailedReadBuildsNothing ==
    rxLast.size = -1 => (~rxLast.built /\ rxLast.packet = NoPacket)

\* C20: when RxJob has read all the peer wrote, and that was whole frames,
\* every frame declaring exactly MAX_PAYLOAD payload bytes was reconstructed
\* as a packet carrying them, and so was the frame after it (it was parsed
\* from its own first byte).
FullPayloadInSync ==
    (RxCaughtUp /\ WellFramed(rxWritten)) =>
        LET ps == FramePackets(rxWritten) IN
        \A i \in 1..Len(ps) :
            ps[i].dataSize = MAX_PAYLOAD =>
                /\ i <= Len(rxPrinted) /\ rxPrinted[i] = ps[i]
                /\ i < Len(ps) => (i + 1 <= Len(rxPrinted) /\ rxPrinted[i + 1] = ps[i + 1])

\* C21: a worker at the top of its loop with its run flag cleared starts no
\* further iteration (its next position is not the lock or the recv), and
\* while the flag is cleared TxJob dequeues and sends only within the
\* iteration it had begun: a dequeue happens only at the position after the
\* lock, a send only at the position after the dequeue, from which TxJob
\* returns to the top of the loop; RxJob reads only at the position after
\* the test of the flag.
RunFlagCheckedAtTop ==
    [][ /\ (~tx_run /\ tx_worker = "loop") => tx_worker' \in {"loop", "done"}
        /\ (~rx_run /\ rx_worker = "loop") => rx_worker' \in {"loop", "done"}
        /\ (~tx_run /\ gtxQueue' # gtxQueue /\ Len(gtxQueue') < Len(gtxQueue)) =>
               (tx_worker = "locked" /\ tx_worker' = "send")
        /\ (~tx_run /\ sent' # sent) =>
               (tx_worker = "send" /\ tx_worker' = "loop" /\ Len(sent') = Len(sent) + 1)
        /\ (~rx_run /\ rxLast' # rxLast) =>
               (rx_worker = "recv" /\ rx_worker' = "loop")
      ]_vars

\* TxJob has left its loop on the cleared flag, having sent one packet, with
\* the next packet still in the queue.
RunFlagCheckedAtTopWitness ==
    /\ ctlPc = "TxStop_join" /\ ~tx_run
    /\ tx_worker = "done"
    /\ Len(sent) = 1 /\ gtxQueue # <<>>
    /\ txPeer = "open"

\* C22: a step of TxStart or TxStop leaves the Rx run flag, rx_sock and the
\* Rx worker as they were, and a step of RxStart or RxStop leaves the Tx run
\* flag, tx_sock, client_tx_sock, the Tx worker and the outbound queue as
\* they were; a worker of the other direction left as it was is still
\* running (the step has not ended the process).
DirectionsIndependent ==
    [][ /\ (ctlPc' # ctlPc /\ ctlOp' \in {"TxStart", "TxStop"}) =>
               /\ UNCHANGED <<rx_run, rx_sock, rx_worker>>
               /\ rx_worker # "none" => terminated' = terminated
        /\ (ctlPc' # ctlPc /\ ctlOp' \in {"RxStart", "RxStop"}) =>
               /\ UNCHANGED <<tx_run, tx_sock, client_tx_sock, tx_worker, gtxQueue>>
               /\ tx_worker # "none" => terminated' = terminated
      ]_vars

\* The packets handed to send() so far, and the packet TxJob holds.
SentPackets == [i \in 1..Len(sent) |-> sent[i].packet]
HeldPacket == IF txPacket = NoPacket THEN <<>> ELSE << txPacket >>

\* C23: the packets pushed so far are the packets handed to send(), then
\* the packet TxJob holds, then the queue contents, in that order: none is
\* lost or sent twice, whatever TxStop and TxStart calls are made.
NoLossNoDuplication == enqueued = SentPackets \o HeldPacket \o gtxQueue

\* After a TxStop and a TxStart, one packet has been sent and TxJob holds
\* the next.
NoLossNoDuplicationWitness ==
    /\ ctlPc = "idle" /\ ctlOp = "TxStart" /\ ctlPrevOp = "TxStop"
    /\ tx_worker = "send" /\ txPeer = "open"
    /\ Len(sent) = 1 /\ Len(enqueued) = 2

====
